---------------------------- MODULE Spec2Model ----------------------------
(***************************************************************************)
(* A state-machine model of src/transcriber.py (class TranscriberApp):     *)
(* the recording controller (toggle_recording, start_recording,            *)
(* stop_recording, change_device, quit_app), the capture callback, the     *)
(* recognition worker (process_audio), the aggregator worker               *)
(* (process_text), clear_context, paste_all_text and the watchdog         *)
(* (check_audio_activity).                                                 *)
(*                                                                         *)
(* Threads.  The handlers connected to Qt shortcuts, buttons and the timer *)
(* run one at a time on the GUI thread (mainPc is that thread's position). *)
(* audio_callback runs on the capture library's thread, process_audio and  *)
(* process_text on their own daemon threads (lines 187-190).               *)
(*                                                                         *)
(* Text is a sequence of one-character strings.                            *)
(***************************************************************************)
EXTENDS Integers, Sequences, FiniteSets, TLC

\* ------------------------------------------------------------------ bounds
\* Frames the capture callback delivers in one run.
MaxFrames == 2
\* Finalized utterances the adapter yields in one run.
MaxUtter == 2
\* Device / adapter / output-sink calls that raise in one run.
MaxFaults == 2
\* clear_context calls in one run.
MaxClears == 2
\* paste_all_text calls in one run.
MaxPastes == 1
\* The last second of the clock.
MaxTime == 6

\* ------------------------------------------------------------- characters
Lower == {"a"}
TerminalPunct == {".", "!", "?"}
Whitespace == {" "}

\* str.upper() on one character (line 316).
ToUpper(c) == IF c = "a" THEN "A" ELSE c

\* str.islower() on one character (line 316).
IsLower(c) == c \in Lower

\* str.rstrip() (line 315): drop trailing whitespace.
RECURSIVE RStrip(_)
RStrip(s) ==
    IF s = <<>> THEN <<>>
    ELSE IF s[Len(s)] \in Whitespace THEN RStrip(SubSeq(s, 1, Len(s) - 1))
    ELSE s

\* The texts KaldiRecognizer.Result() may carry (line 285); the empty and the
\* whitespace-only text are the ones line 286 discards.
ResultTexts ==
    { <<>>, <<" ">>, <<"a">>, <<"a", ".">>, <<"a", ":">>, <<"?", " ">>,
      <<" ", "a">> }

\* str.lstrip(): drop leading whitespace.
RECURSIVE LStrip(_)
LStrip(s) ==
    IF s = <<>> THEN <<>>
    ELSE IF s[1] \in Whitespace THEN LStrip(Tail(s))
    ELSE s

\* Faulty variant of Strip: the text is tested without trimming.
StripNothing(s) == s

\* str.strip() (lines 286, 292).
Strip(s) == LStrip(RStrip(s))

\* The partial hypotheses KaldiRecognizer.PartialResult() may carry (line 291).
PartialTexts == { <<>>, <<" ">>, <<"a">> }

\* One call on an external collaborator: its name and its argument.
Call(name, arg) == <<name, arg>>

\* The device ids the selector's itemData can return (line 198).
Devices == {"d0", "d1"}

VARIABLES
    \* --- TranscriberApp fields (lines 148-154, 249)
    recording,          \* self.recording
    current_device,     \* self.current_device ("None" when never set)
    stream,             \* state of the object self.stream refers to
    stream_device,      \* the device that object was opened on
    audio_counter,      \* self.audio_counter
    last_audio_time,    \* self.last_audio_time
    now,                \* the value time.time() returns, in seconds
    audio_queue,        \* self.audio_queue
    text_queue,         \* self.text_queue
    context_buffer,     \* self.context_buffer
    \* --- capture streams no longer referenced by self.stream but never closed
    leaked,             \* how many are open
    leakedStarted,      \* how many of them are still started
    \* --- thread positions and locals
    mainPc,             \* GUI thread: the handler step in progress
    audioPc,            \* process_audio thread
    textPc,             \* process_text thread
    text,               \* process_text's local `text`
    tmp,                \* process_text's operand stack during `+=`
    \* --- the recognizer built on line 165
    decoder_base,       \* the session of the frames its unfinished
                        \* utterance holds (-1: it holds none)
    \* --- the QTimer of lines 193-195
    checkedAt,          \* the second of its latest timeout
    \* --- DisplaySink: the value last emitted on each signal (lines 17-21)
    ui_status, ui_recording, ui_debug, ui_preview, ui_partial,
    \* --- OutputSink: the clipboard and the texts pasted at the cursor
    clipboard, injected,
    \* --- history
    faults,             \* calls that raised so far
    deviceFailed,       \* a call on a capture stream raised so far
    nframes,            \* frames delivered by the capture library so far
    captured,           \* frames audio_callback put on audio_queue, in order
    fed,                \* frames passed to AcceptWaveform, in order
    copied,             \* every text process_text handed to pyperclip.copy
    put_log,            \* every text put on text_queue, in order
    get_log,            \* every text process_text dequeued, in order
    nclear,             \* clear_context calls so far
    npaste,             \* paste_all_text calls so far
    startedAt,          \* the time of the latest start_recording
    sessionBase,        \* nframes at the latest start_recording
    clearedMid,         \* clear_context ran since process_text took the
                        \* utterance it is handling
    partialSinceFinal,  \* a partial hypothesis was displayed since the
                        \* latest final result was put on text_queue
    toggleParity,       \* number of toggle_recording calls so far, mod 2
    onlyToggles,        \* no change_device / quit_app ran so far
    last                \* the calls the latest step made on the capture
                        \* library, the adapter and the OutputSink, in order

ctlVars == <<recording, current_device, stream, stream_device, audio_counter,
             leaked, leakedStarted, mainPc>>
timeVars == <<now, last_audio_time, checkedAt>>
recogVars == <<audioPc, decoder_base>>
queueVars == <<audio_queue, text_queue>>
aggVars == <<context_buffer, textPc, text, tmp>>
uiVars == <<ui_status, ui_recording, ui_debug, ui_preview, ui_partial>>
sinkVars == <<clipboard, injected>>
histVars == <<faults, deviceFailed, nframes, captured, fed, copied, put_log,
              get_log, nclear, npaste, startedAt, sessionBase, clearedMid,
              partialSinceFinal, toggleParity, onlyToggles>>
vars == <<ctlVars, timeVars, queueVars, aggVars, recogVars, uiVars, sinkVars,
          histVars, last>>

\* A capture stream is live from the InputStream constructor (line 249) until
\* close() (line 271).
StreamLive == stream \in {"opened", "started", "stopped"}

\* The number of live capture streams.
LiveStreams == (IF StreamLive THEN 1 ELSE 0) + leaked

\* ------------------------------------------------------------------- Init
\* The state after TranscriberApp.__init__ (lines 147-195); querying the
\* default input device may fail (lines 175-184), leaving current_device None.
Init ==
    /\ recording = FALSE
    /\ current_device \in {"d0", "None"}
    /\ stream = "unset"
    /\ stream_device = "None"
    /\ audio_counter = 0
    /\ last_audio_time = 0
    /\ now = 3
    /\ audio_queue = <<>>
    /\ text_queue = <<>>
    /\ context_buffer = <<>>
    /\ leaked = 0
    /\ leakedStarted = 0
    /\ mainPc = "idle"
    /\ audioPc = "run"
    /\ textPc = "poll"
    /\ text = <<>>
    /\ tmp = <<>>
    /\ decoder_base = -1
    /\ checkedAt = now
    /\ ui_status = "hint"
    /\ ui_recording = FALSE
    /\ ui_debug = IF current_device = "None" THEN <<"ErrorQuery">> ELSE <<"DefaultDevice">>
    /\ ui_preview = <<>>
    /\ ui_partial = <<>>
    /\ clipboard = <<>>
    /\ injected = <<>>
    /\ faults = 0
    /\ deviceFailed = FALSE
    /\ nframes = 0
    /\ captured = <<>>
    /\ fed = <<>>
    /\ copied = <<>>
    /\ put_log = <<>>
    /\ get_log = <<>>
    /\ nclear = 0
    /\ npaste = 0
    /\ startedAt = 0
    /\ sessionBase = 0
    /\ clearedMid = FALSE
    /\ partialSinceFinal = FALSE
    /\ toggleParity = 0
    /\ onlyToggles = TRUE
    /\ last = <<>>

\* ------------------------------------------------- RecordingController
\* toggle_recording, lines 217-222 / 225: flip the flag, notify, then go on
\* into start_recording or stop_recording.
ToggleRecording ==
    /\ mainPc = "idle"
    /\ recording' = ~recording
    /\ ui_recording' = recording'
    /\ ui_status' = IF recording' THEN "Recording" ELSE "Stopped"
    /\ mainPc' = IF recording' THEN "toggle_start" ELSE "toggle_stop"
    /\ toggleParity' = 1 - toggleParity
    /\ last' = <<>>
    /\ UNCHANGED <<timeVars, current_device, stream, stream_device, audio_counter,
                   leaked, leakedStarted, queueVars, aggVars, recogVars,
                   ui_debug, ui_preview, ui_partial, sinkVars,
                   faults, deviceFailed, nframes, captured, fed, copied, put_log, get_log, nclear, npaste, startedAt, sessionBase, clearedMid, partialSinceFinal,
                   onlyToggles>>

\* Where the GUI thread goes on after start_recording / stop_recording return.
AfterStart == "idle"
AfterStop ==
    CASE mainPc = "toggle_stop" -> "idle"
      [] mainPc = "change_stop" -> "change_start"
      [] mainPc = "quit_stop" -> "exited"

\* Rebinding self.stream (line 249) drops the last reference to the stream it
\* held; a stream that was never closed stays open in the capture library.
LeakOld(newStream) ==
    /\ leaked' = IF StreamLive THEN leaked + 1 ELSE leaked
    /\ leakedStarted' = IF stream = "started" THEN leakedStarted + 1
                        ELSE leakedStarted
    /\ stream' = newStream
    /\ stream_device' = current_device

\* Faulty variant of StartFailed: the except branch reports the error but leaves
\* self.recording set and sends no recording-inactive notification.
StartFailedStaysActive ==
    /\ ui_debug' = <<"ErrorStart">>
    /\ ui_status' = "Error"
    /\ faults' = faults + 1
    /\ deviceFailed' = TRUE
    /\ UNCHANGED <<recording, ui_recording>>

\* The except branch of start_recording, lines 260-265.
StartFailed ==
    /\ recording' = FALSE
    /\ ui_debug' = <<"ErrorStart">>
    /\ ui_recording' = FALSE
    /\ ui_status' = "Error"
    /\ faults' = faults + 1
    /\ deviceFailed' = TRUE

\* start_recording, lines 245-265.  res is what the capture library does:
\* "ok", "open_fail" (the InputStream constructor raises) or "start_fail"
\* (stream.start() raises, after self.stream was bound to the new stream).
StartRecording(res) ==
    /\ mainPc \in {"toggle_start", "change_start"}
    /\ res # "ok" => faults < MaxFaults
    /\ audio_counter' = 0
    /\ last_audio_time' = now
    /\ startedAt' = now
    /\ sessionBase' = nframes
    /\ CASE res = "ok" ->
              /\ LeakOld("started")
              /\ ui_debug' = <<"Started">>
              /\ last' = <<Call("InputStream", <<current_device>>), Call("start", <<>>)>>
              /\ UNCHANGED <<recording, ui_recording, ui_status, faults,
                             deviceFailed>>
         [] res = "open_fail" ->
              /\ StartFailed
              /\ last' = <<Call("InputStream", <<current_device>>)>>
              /\ UNCHANGED <<stream, stream_device, leaked, leakedStarted>>
         [] res = "start_fail" ->
              /\ LeakOld("opened")
              /\ StartFailed
              /\ last' = <<Call("InputStream", <<current_device>>), Call("start", <<>>)>>
    /\ mainPc' = AfterStart
    /\ UNCHANGED <<now, checkedAt, current_device, queueVars, aggVars,
                   recogVars, ui_preview, ui_partial, sinkVars,
                   nframes, captured, fed, copied, put_log, get_log, nclear,
                   npaste, clearedMid, partialSinceFinal, toggleParity, onlyToggles>>

\* Faulty variant of StreamAfterClose: stop_recording forgets stream.close().
StreamAfterCloseForgotten == "stopped"

\* Faulty variant of RecordingAfterStopError: the except branch takes a failed stop
\* to mean that recording goes on.
RecordingAfterStopErrorResumed == TRUE

\* The state of the stream after stream.stop() and stream.close() returned
\* (lines 270-271).
StreamAfterClose == "closed"

\* self.recording after the except branch of stop_recording (lines 274-276),
\* which does not assign it.
RecordingAfterStopError == recording

\* The except branch of stop_recording, lines 274-276.
StopFailed ==
    /\ ui_debug' = <<"ErrorStop">>
    /\ recording' = RecordingAfterStopError
    /\ deviceFailed' = TRUE

\* Faulty variant of AudioQueueAfterStop: stopping discards the frames still
\* queued.
AudioQueueAfterStopFlushed == <<>>

\* self.audio_queue after stop_recording, lines 267-276, which neither reads
\* nor writes it and joins no thread.
AudioQueueAfterStop == audio_queue

\* stop_recording, lines 267-276.  res is what the capture library does:
\* "ok", "stop_fail" (stream.stop() raises, close() is skipped) or
\* "close_fail" (stream.close() raises and the stream stays open).  Nothing
\* is done when self.stream was never bound (line 268).  On a stream that is
\* already closed either outcome leaves it closed.
StopRecording(res) ==
    /\ mainPc \in {"toggle_stop", "change_stop", "quit_stop"}
    /\ IF stream = "unset"
       THEN /\ res = "ok"
            /\ last' = <<>>
            /\ UNCHANGED <<stream, ui_debug, recording, faults, deviceFailed>>
       ELSE /\ (res # "ok" /\ stream # "closed") => faults < MaxFaults
            /\ CASE res = "ok" ->
                      /\ stream' = StreamAfterClose
                      /\ ui_debug' = <<"Stopped">>
                      /\ last' = <<Call("stop", <<>>), Call("close", <<>>)>>
                      /\ UNCHANGED <<recording, faults, deviceFailed>>
                 [] res = "stop_fail" ->
                      /\ StopFailed
                      /\ last' = <<Call("stop", <<>>)>>
                      /\ faults' = IF stream = "closed" THEN faults
                                   ELSE faults + 1
                      /\ UNCHANGED stream
                 [] res = "close_fail" ->
                      /\ stream # "closed"
                      /\ stream' = "stopped"
                      /\ StopFailed
                      /\ last' = <<Call("stop", <<>>), Call("close", <<>>)>>
                      /\ faults' = faults + 1
    /\ mainPc' = AfterStop
    /\ audio_queue' = AudioQueueAfterStop
    /\ UNCHANGED <<timeVars, current_device, stream_device, audio_counter,
                   leaked, leakedStarted, text_queue, aggVars, recogVars,
                   ui_status, ui_recording, ui_preview, ui_partial, sinkVars,
                   nframes, captured, fed, copied, put_log, get_log, nclear, npaste, startedAt, sessionBase, clearedMid, partialSinceFinal, toggleParity,
                   onlyToggles>>

\* change_device, lines 197-207.  device is itemData(index): a device id,
\* or "None" for an index that carries none (line 199).
ChangeDevice(device) ==
    /\ mainPc = "idle"
    /\ IF device = "None"
       THEN UNCHANGED <<current_device, ui_debug, mainPc>>
       ELSE /\ current_device' = device
            /\ ui_debug' = <<"Changed">>
            /\ mainPc' = IF recording THEN "change_stop" ELSE "idle"
    /\ onlyToggles' = FALSE
    /\ last' = <<>>
    /\ UNCHANGED <<timeVars, recording, stream, stream_device, audio_counter,
                   leaked, leakedStarted, queueVars, aggVars, recogVars,
                   ui_status, ui_recording, ui_preview, ui_partial, sinkVars,
                   faults, deviceFailed, nframes, captured, fed, copied, put_log, get_log, nclear, npaste, startedAt, sessionBase, clearedMid, partialSinceFinal,
                   toggleParity>>

\* quit_app, lines 349-352: stop_recording, then the process exits.
QuitApp ==
    /\ mainPc = "idle"
    /\ mainPc' = "quit_stop"
    /\ onlyToggles' = FALSE
    /\ last' = <<>>
    /\ UNCHANGED <<timeVars, recording, current_device, stream, stream_device,
                   audio_counter, leaked, leakedStarted, queueVars, aggVars,
                   recogVars, uiVars, sinkVars,
                   faults, deviceFailed, nframes, captured, fed, copied, put_log, get_log, nclear, npaste, startedAt, sessionBase, clearedMid, partialSinceFinal,
                   toggleParity>>

\* The process runs until quit_app's sys.exit (line 352), or until an
\* exception leaves a slot of the GUI thread uncaught.
Running == mainPc \notin {"exited", "aborted"}

\* ------------------------------------------------------ capture boundary
\* The capture library calls audio_callback while a stream is started.
CallbackPossible == stream = "started" \/ leakedStarted > 0

\* Faulty variant of FrameForwarded: a block without reasonable amplitude is
\* not handed on.
FrameForwardedLoudOnly(kind) == kind = "loud"

\* Lines 235-243: whether a block received while recording is put on
\* audio_queue.  kind is "loud" when np.any(indata) and the amplitude test
\* of line 235 hold and "silent" otherwise; both branches put the block.
FrameForwarded(kind) == TRUE

\* The block the callback received: its number among the blocks delivered,
\* its kind, the session it was received in (nframes at the latest
\* start_recording) and the time it was received.
Frame(kind) == <<nframes + 1, kind, sessionBase, now>>

\* audio_callback, lines 228-243.  kind is the block delivered; flagged is
\* the library's status argument (line 229).
AudioCallback(kind, flagged) ==
    /\ Running
    /\ CallbackPossible
    /\ nframes < MaxFrames
    /\ nframes' = nframes + 1
    /\ ui_debug' = IF flagged THEN <<"AudioError">> ELSE ui_debug
    /\ IF recording
       THEN /\ audio_counter' = audio_counter + 1
            /\ last_audio_time' = now
            /\ audio_queue' = IF FrameForwarded(kind)
                              THEN Append(audio_queue, Frame(kind))
                              ELSE audio_queue
            /\ captured' = Append(captured, Frame(kind))
       ELSE UNCHANGED <<audio_counter, last_audio_time, audio_queue, captured>>
    /\ last' = <<>>
    /\ UNCHANGED <<now, checkedAt, recording, current_device, stream,
                   stream_device,
                   leaked, leakedStarted, mainPc, text_queue, aggVars, recogVars,
                   ui_status, ui_recording, ui_preview, ui_partial, sinkVars,
                   faults, deviceFailed, fed, copied, put_log, get_log, nclear, npaste, startedAt, sessionBase, clearedMid, partialSinceFinal,
                   toggleParity, onlyToggles>>

\* ------------------------------------------------------ ActivityWatchdog
\* One second passes.
Tick ==
    /\ Running
    /\ now < MaxTime
    /\ now' = now + 1
    /\ last' = <<>>
    /\ UNCHANGED <<ctlVars, last_audio_time, checkedAt, queueVars, aggVars,
                   recogVars, uiVars, sinkVars, histVars>>

\* Faulty variant of Stalled: two seconds without a frame already count.
StalledAtThreshold(elapsed) == elapsed >= 2

\* Line 212: current_time - self.last_audio_time > 2.
Stalled(elapsed) == elapsed > 2

\* check_audio_activity, lines 209-215, run by the QTimer of lines 193-195
\* once a second, when the GUI thread is free.
CheckAudioActivity ==
    /\ mainPc = "idle"
    /\ checkedAt < now
    /\ checkedAt' = now
    /\ ui_debug' = IF ~recording THEN ui_debug
                   ELSE IF Stalled(now - last_audio_time) THEN <<"NoAudio">>
                   ELSE <<"Active", audio_counter>>
    /\ last' = <<>>
    /\ UNCHANGED <<ctlVars, now, last_audio_time, queueVars, aggVars,
                   recogVars, ui_status, ui_recording, ui_preview, ui_partial,
                   sinkVars, histVars>>

\* ------------------------------------------------------ RecognitionWorker
\* Faulty variant of TextQueuePut: the utterance goes to the front of the queue.
TextQueuePutFront(q, t) == <<t>> \o q

\* self.text_queue.put(result["text"]), line 288, on a queue.Queue.
TextQueuePut(q, t) == Append(q, t)

\* Faulty variant of AudioErrorHandled: the exception ends the worker's loop.
AudioErrorEndsWorker ==
    /\ ui_debug' = <<"ErrorAudio">>
    /\ audioPc' = "dead"

\* What the except branch of process_audio does, lines 294-296.
AudioErrorHandled ==
    /\ ui_debug' = <<"ErrorAudio">>
    /\ audioPc' = "run"

\* One iteration of process_audio with a frame in the queue, lines 280-296.
\* outcome is what the adapter does with the frame: <<"final", t>>
\* (AcceptWaveform true, Result() carries t), <<"partial", t>>
\* (AcceptWaveform false, PartialResult() carries t) or <<"raise", <<>>>>.
\* The recognizer is the one object built on line 165: Result() ends its
\* utterance and leaves it holding nothing, a frame it accepts without
\* finalizing is added to what it holds, and nothing in the program calls
\* Reset() on it or builds another.
ProcessAudio(outcome) ==
    /\ Running
    /\ audioPc = "run"
    /\ audio_queue # <<>>
    /\ audio_queue' = Tail(audio_queue)
    /\ fed' = Append(fed, Head(audio_queue))
    /\ CASE outcome[1] = "final" ->
              /\ IF Strip(outcome[2]) # <<>>
                 THEN /\ Len(put_log) < MaxUtter
                      /\ text_queue' = TextQueuePut(text_queue, outcome[2])
                      /\ put_log' = Append(put_log, outcome[2])
                      /\ partialSinceFinal' = FALSE
                 ELSE UNCHANGED <<text_queue, put_log, partialSinceFinal>>
              /\ decoder_base' = -1
              /\ last' = <<Call("AcceptWaveform", <<>>), Call("Result", <<>>)>>
              /\ UNCHANGED <<ui_partial, ui_debug, audioPc, faults>>
         [] outcome[1] = "partial" ->
              /\ ui_partial' = IF Strip(outcome[2]) # <<>> THEN outcome[2]
                               ELSE ui_partial
              /\ partialSinceFinal' =
                     (partialSinceFinal \/ Strip(outcome[2]) # <<>>)
              /\ decoder_base' = IF decoder_base = -1
                                 THEN Head(audio_queue)[3]
                                 ELSE decoder_base
              /\ last' = <<Call("AcceptWaveform", <<>>),
                           Call("PartialResult", <<>>)>>
              /\ UNCHANGED <<text_queue, put_log, ui_debug, audioPc, faults>>
         [] outcome[1] = "raise" ->
              /\ faults < MaxFaults
              /\ faults' = faults + 1
              /\ AudioErrorHandled
              /\ last' = <<Call("AcceptWaveform", <<>>)>>
              /\ UNCHANGED <<text_queue, put_log, ui_partial, decoder_base,
                             partialSinceFinal>>
    /\ UNCHANGED <<ctlVars, timeVars, aggVars, ui_status, ui_recording,
                   ui_preview, sinkVars, deviceFailed, nframes, captured,
                   copied, get_log, nclear, npaste, startedAt, sessionBase,
                   clearedMid, toggleParity, onlyToggles>>

AdapterOutcomes ==
    ({"final"} \X ResultTexts) \cup ({"partial"} \X PartialTexts)
        \cup {<<"raise", <<>>>>}

\* --------------------------------------------------------- TextAggregator
\* Line 316: text[0].upper() + text[1:] if text and text[0].islower() else text
Capitalize(t) ==
    IF t # <<>> /\ IsLower(t[1]) THEN <<ToUpper(t[1])>> \o Tail(t) ELSE t

\* Faulty variant of EndsSentence: the test looks at the last character of the
\* buffer without rstrip().
EndsSentenceNoStrip(buf) == buf[Len(buf)] \in TerminalPunct

\* Line 315: self.context_buffer.rstrip()[-1] in ('.', '!', '?'), for a
\* buffer whose rstrip() is not empty.
EndsSentence(buf) == RStrip(buf)[Len(RStrip(buf))] \in TerminalPunct

\* Where process_text goes when line 315 indexes an empty string: the
\* IndexError is raised outside the try of line 324 and ends the thread.
AfterIndexError == "dead"

\* Faulty variant of AfterDispatchError: the OutputSink's exception ends the thread.
AfterDispatchErrorDies == "dead"

\* Where process_text goes after the except branch of lines 329-331.
AfterDispatchError == "poll"

\* Lines 302-304: take the next utterance off text_queue.
TextGet ==
    /\ Running
    /\ textPc = "poll"
    /\ text_queue # <<>>
    /\ text' = Head(text_queue)
    /\ text_queue' = Tail(text_queue)
    /\ get_log' = Append(get_log, Head(text_queue))
    /\ textPc' = "check"
    /\ clearedMid' = FALSE
    /\ last' = <<>>
    /\ UNCHANGED <<ctlVars, timeVars, audio_queue, context_buffer, tmp, recogVars,
                   uiVars, sinkVars, faults, deviceFailed, nframes, captured,
                   fed, copied, put_log, nclear, npaste, startedAt,
                   sessionBase, partialSinceFinal, toggleParity,
                   onlyToggles>>

\* Line 307: if self.context_buffer.  (Line 309 reads the buffer again, but
\* both of its branches are the statement of lines 310 / 312.)
TextCheck ==
    /\ Running
    /\ textPc = "check"
    /\ textPc' = IF context_buffer # <<>> THEN "sep_load" ELSE "app_load"
    /\ last' = <<>>
    /\ UNCHANGED <<ctlVars, timeVars, queueVars, context_buffer, text, tmp,
                   recogVars, uiVars, sinkVars, histVars>>

\* Lines 310 / 312 and 318, first half of `self.context_buffer += x`: the
\* attribute is loaded.
TextLoad ==
    /\ Running
    /\ textPc \in {"sep_load", "app_load"}
    /\ tmp' = context_buffer
    /\ textPc' = IF textPc = "sep_load" THEN "sep_store" ELSE "app_store"
    /\ last' = <<>>
    /\ UNCHANGED <<ctlVars, timeVars, queueVars, context_buffer, text,
                   recogVars, uiVars, sinkVars, histVars>>

\* Lines 310 / 312, second half: the loaded value plus " " is stored.
TextSepStore ==
    /\ Running
    /\ textPc = "sep_store"
    /\ context_buffer' = tmp \o <<" ">>
    /\ textPc' = "cap"
    /\ last' = <<>>
    /\ UNCHANGED <<ctlVars, timeVars, queueVars, text, tmp,
                   recogVars, uiVars, sinkVars, histVars>>

\* Lines 315-316.
TextCap ==
    /\ Running
    /\ textPc = "cap"
    /\ IF RStrip(context_buffer) = <<>>
       THEN /\ textPc' = AfterIndexError
            /\ UNCHANGED text
       ELSE /\ textPc' = "app_load"
            /\ text' = IF EndsSentence(context_buffer) THEN Capitalize(text)
                       ELSE text
    /\ last' = <<>>
    /\ UNCHANGED <<ctlVars, timeVars, queueVars, context_buffer, tmp,
                   recogVars, uiVars, sinkVars, histVars>>

\* Line 318, second half: the loaded value plus text is stored.
TextAppStore ==
    /\ Running
    /\ textPc = "app_store"
    /\ context_buffer' = tmp \o text
    /\ textPc' = "preview"
    /\ last' = <<>>
    /\ UNCHANGED <<ctlVars, timeVars, queueVars, text, tmp,
                   recogVars, uiVars, sinkVars, histVars>>

\* Line 321.
TextPreview ==
    /\ Running
    /\ textPc = "preview"
    /\ ui_preview' = context_buffer
    /\ textPc' = "dispatch"
    /\ last' = <<>>
    /\ UNCHANGED <<ctlVars, timeVars, queueVars, context_buffer, text, tmp,
                   recogVars, ui_status, ui_recording, ui_debug, ui_partial,
                   sinkVars, histVars>>

\* Faulty variant of Fragment: the whole transcript is dispatched.
FragmentWholeTranscript(t) == context_buffer \o <<" ">>

\* The text handed to pyperclip.copy on line 325.
Fragment(t) == t \o <<" ">>

\* Lines 324-331.  res is what the OutputSink does: "ok", "copy_fail"
\* (pyperclip.copy raises) or "paste_fail" (pyautogui.hotkey raises).
TextDispatch(res) ==
    /\ Running
    /\ textPc = "dispatch"
    /\ res # "ok" => faults < MaxFaults
    /\ copied' = Append(copied, Fragment(text))
    /\ CASE res = "ok" ->
              /\ clipboard' = Fragment(text)
              /\ injected' = Append(injected, clipboard')
              /\ ui_partial' = <<>>
              /\ last' = <<Call("copy", Fragment(text)), Call("hotkey", <<>>)>>
              /\ textPc' = "poll"
              /\ UNCHANGED <<ui_debug, faults>>
         [] res = "copy_fail" ->
              /\ ui_debug' = <<"ErrorPaste">>
              /\ last' = <<Call("copy", Fragment(text))>>
              /\ faults' = faults + 1
              /\ textPc' = AfterDispatchError
              /\ UNCHANGED <<clipboard, injected, ui_partial>>
         [] res = "paste_fail" ->
              /\ clipboard' = Fragment(text)
              /\ ui_debug' = <<"ErrorPaste">>
              /\ last' = <<Call("copy", Fragment(text)), Call("hotkey", <<>>)>>
              /\ faults' = faults + 1
              /\ textPc' = AfterDispatchError
              /\ UNCHANGED <<injected, ui_partial>>
    /\ UNCHANGED <<ctlVars, timeVars, queueVars, context_buffer, text, tmp,
                   recogVars, ui_status, ui_recording, ui_preview, deviceFailed,
                   nframes, captured, fed, put_log, get_log, nclear, npaste, startedAt, sessionBase, clearedMid, partialSinceFinal, toggleParity,
                   onlyToggles>>

\* The value clear_context gives self.context_buffer (line 336).
ClearedBuffer == <<>>

\* Faulty variant of ClearContext: clearing also drops the utterances still queued.
ClearContextFlushesQueue ==
    /\ mainPc = "idle"
    /\ nclear < MaxClears
    /\ nclear' = nclear + 1
    /\ clearedMid' = (clearedMid \/ textPc \notin {"poll", "dead"})
    /\ context_buffer' = ClearedBuffer
    /\ text_queue' = <<>>
    /\ ui_preview' = <<"Context cleared">>
    /\ ui_status' = "Cleared"
    /\ ui_partial' = <<>>
    /\ last' = <<>>
    /\ UNCHANGED <<ctlVars, timeVars, audio_queue, textPc, text, tmp, recogVars,
                   ui_recording, ui_debug, sinkVars,
                   faults, deviceFailed, nframes, captured, fed, copied,
                   put_log, get_log, npaste, startedAt, sessionBase,
                   partialSinceFinal, toggleParity, onlyToggles>>

\* clear_context, lines 335-339.
ClearContext ==
    /\ mainPc = "idle"
    /\ nclear < MaxClears
    /\ nclear' = nclear + 1
    /\ clearedMid' = (clearedMid \/ textPc \notin {"poll", "dead"})
    /\ context_buffer' = ClearedBuffer
    /\ ui_preview' = <<"Context cleared">>
    /\ ui_status' = "Cleared"
    /\ ui_partial' = <<>>
    /\ last' = <<>>
    /\ UNCHANGED <<ctlVars, timeVars, queueVars, textPc, text, tmp, recogVars,
                   ui_recording, ui_debug, sinkVars,
                   faults, deviceFailed, nframes, captured, fed, copied,
                   put_log, get_log, npaste, startedAt, sessionBase,
                   partialSinceFinal, toggleParity, onlyToggles>>

\* Faulty variant of PasteBatch: only the utterance dispatched last is pasted.
PasteBatchLatestFragment == text \o <<" ">>

\* The text paste_all_text hands to pyperclip.copy (line 343).
PasteBatch == context_buffer

\* paste_all_text, lines 341-347.  res is what the OutputSink does; the
\* handler has no try, so a call that raises leaves the slot with an
\* uncaught exception.
PasteAllText(res) ==
    /\ mainPc = "idle"
    /\ npaste < MaxPastes
    /\ npaste' = npaste + 1
    /\ IF context_buffer = <<>>
       THEN /\ res = "ok"
            /\ ui_status' = "NoText"
            /\ last' = <<>>
            /\ UNCHANGED <<sinkVars, mainPc, faults>>
       ELSE /\ res # "ok" => faults < MaxFaults
            /\ CASE res = "ok" ->
                      /\ clipboard' = PasteBatch
                      /\ injected' = Append(injected, clipboard')
                      /\ ui_status' = "Pasted"
                      /\ last' = <<Call("copy", PasteBatch),
                                   Call("hotkey", <<>>)>>
                      /\ UNCHANGED <<mainPc, faults>>
                 [] res = "copy_fail" ->
                      /\ last' = <<Call("copy", PasteBatch)>>
                      /\ mainPc' = "aborted"
                      /\ faults' = faults + 1
                      /\ UNCHANGED <<sinkVars, ui_status>>
                 [] res = "paste_fail" ->
                      /\ clipboard' = PasteBatch
                      /\ last' = <<Call("copy", PasteBatch),
                                   Call("hotkey", <<>>)>>
                      /\ mainPc' = "aborted"
                      /\ faults' = faults + 1
                      /\ UNCHANGED <<injected, ui_status>>
    /\ UNCHANGED <<recording, current_device, stream, stream_device,
                   audio_counter, leaked, leakedStarted, timeVars, queueVars,
                   aggVars, recogVars, ui_recording, ui_debug, ui_preview,
                   ui_partial, deviceFailed, nframes, captured, fed, copied,
                   put_log, get_log, nclear, startedAt, sessionBase,
                   clearedMid, partialSinceFinal, toggleParity, onlyToggles>>

\* ------------------------------------------------------------------- Next
StartResults == {"ok", "open_fail", "start_fail"}
StopResults == {"ok", "stop_fail", "close_fail"}
SinkResults == {"ok", "copy_fail", "paste_fail"}
FrameKinds == {"loud", "silent"}

Next ==
    \/ ToggleRecording
    \/ \E res \in StartResults : StartRecording(res)
    \/ \E res \in StopResults : StopRecording(res)
    \/ \E device \in Devices \cup {"None"} : ChangeDevice(device)
    \/ QuitApp
    \/ \E kind \in FrameKinds, flagged \in BOOLEAN : AudioCallback(kind, flagged)
    \/ Tick
    \/ CheckAudioActivity
    \/ \E outcome \in AdapterOutcomes : ProcessAudio(outcome)
    \/ TextGet
    \/ TextCheck
    \/ TextLoad
    \/ TextSepStore
    \/ TextCap
    \/ TextAppStore
    \/ TextPreview
    \/ \E res \in SinkResults : TextDispatch(res)
    \/ ClearContext
    \/ \E res \in SinkResults : PasteAllText(res)

Spec == Init /\ [][Next]_vars

\* The recording controller and the capture boundary alone, with every
\* device failure: the two worker threads are not scheduled and the clock
\* stands still.  No action left out writes a field of the controller.
NextCtl ==
    \/ ToggleRecording
    \/ \E res \in StartResults : StartRecording(res)
    \/ \E res \in StopResults : StopRecording(res)
    \/ \E device \in Devices \cup {"None"} : ChangeDevice(device)
    \/ QuitApp
    \/ \E kind \in FrameKinds, flagged \in BOOLEAN : AudioCallback(kind, flagged)

SpecCtl == Init /\ [][NextCtl]_vars

\* The recording controller, the capture boundary and the watchdog, with
\* the clock running: the two worker threads are not scheduled and the
\* capture device does not fail.
NextWatch ==
    \/ ToggleRecording
    \/ StartRecording("ok")
    \/ StopRecording("ok")
    \/ \E device \in Devices \cup {"None"} : ChangeDevice(device)
    \/ \E kind \in FrameKinds : AudioCallback(kind, FALSE)
    \/ Tick
    \/ CheckAudioActivity

SpecWatch == Init /\ [][NextWatch]_vars

\* The state after __init__ when the default input device was found.
InitAgg == Init /\ current_device = "d0"

\* The capture callback and the recognition worker, with every adapter
\* outcome: the aggregator worker is not scheduled, the default device was
\* found, the capture device does not fail and the clock stands still.
NextRecog ==
    \/ ToggleRecording
    \/ StartRecording("ok")
    \/ StopRecording("ok")
    \/ \E kind \in FrameKinds, flagged \in BOOLEAN : AudioCallback(kind, flagged)
    \/ \E outcome \in AdapterOutcomes : ProcessAudio(outcome)

SpecRecog == InitAgg /\ [][NextRecog]_vars

\* process_audio is a loop on a thread of its own that looks at audio_queue
\* every 50 ms (lines 279-298): as long as the thread is scheduled, a frame
\* on the queue is taken.
RecogFairness == WF_vars(\E outcome \in AdapterOutcomes : ProcessAudio(outcome))

SpecRecogFair == SpecRecog /\ RecogFairness

\* The recognition worker and the aggregator worker running side by side,
\* with every OutputSink failure and with clear_context at any moment.  The
\* default device was found, capturing is switched on and not stopped again,
\* the capture device does not fail, the adapter finalizes an utterance on every
\* frame, and the clock stands still.
NextAgg ==
    \/ ToggleRecording
    \/ StartRecording("ok")
    \/ AudioCallback("loud", FALSE)
    \/ \E t \in ResultTexts : ProcessAudio(<<"final", t>>)
    \/ TextGet
    \/ TextCheck
    \/ TextLoad
    \/ TextSepStore
    \/ TextCap
    \/ TextAppStore
    \/ TextPreview
    \/ \E res \in SinkResults : TextDispatch(res)
    \/ ClearContext

SpecAgg == InitAgg /\ [][NextAgg]_vars

\* The aggregator worker with paste_all_text at any moment, also between
\* two steps of process_text, and with every failure of the OutputSink
\* under paste_all_text.  clear_context does not run and the dispatch of an
\* utterance does not fail; otherwise as NextAgg.
NextPaste ==
    \/ ToggleRecording
    \/ StartRecording("ok")
    \/ AudioCallback("loud", FALSE)
    \/ \E t \in ResultTexts : ProcessAudio(<<"final", t>>)
    \/ TextGet
    \/ TextCheck
    \/ TextLoad
    \/ TextSepStore
    \/ TextCap
    \/ TextAppStore
    \/ TextPreview
    \/ TextDispatch("ok")
    \/ \E res \in SinkResults : PasteAllText(res)

SpecPaste == InitAgg /\ [][NextPaste]_vars

\* The whole pipeline behind the capture callback: the recognition worker
\* with every adapter outcome and the aggregator worker with every
\* OutputSink failure, recording being switched on and off.  clear_context
\* and paste_all_text do not run, the capture device does not fail and the
\* clock stands still.
NextPipe ==
    \/ ToggleRecording
    \/ StartRecording("ok")
    \/ StopRecording("ok")
    \/ AudioCallback("loud", FALSE)
    \/ \E outcome \in AdapterOutcomes : ProcessAudio(outcome)
    \/ TextGet
    \/ TextCheck
    \/ TextLoad
    \/ TextSepStore
    \/ TextCap
    \/ TextAppStore
    \/ TextPreview
    \/ \E res \in SinkResults : TextDispatch(res)

SpecPipe == InitAgg /\ [][NextPipe]_vars

\* ================================================================ claims
\* How often a call named name occurs in the calls of the latest step.
CallCount(name) == Cardinality({i \in 1..Len(last) : last[i][1] = name})

\* C1.  Starting Idle, after n toggle_recording calls in which every
\* capture-stream call succeeded and no other controller operation ran, the
\* controller is Idle with no live capture stream when n is even, and Active
\* with exactly one live capture stream when n is odd.
C1_ToggleParity ==
    (mainPc = "idle" /\ onlyToggles /\ ~deviceFailed) =>
        IF toggleParity = 0
        THEN ~recording /\ LiveStreams = 0
        ELSE recording /\ LiveStreams = 1 /\ stream = "started"

\* C1 witness: Active for the second time at least (a frame was delivered
\* in an earlier session, the counter was reset since), after only
\* successful toggles.
C1_Witness ==
    /\ mainPc = "idle" /\ onlyToggles /\ ~deviceFailed
    /\ toggleParity = 1 /\ recording /\ LiveStreams = 1
    /\ nframes > 0 /\ audio_counter = 0

\* C2 as claimed: whenever no controller operation is in progress, Active
\* owns exactly one live capture stream and Idle owns none, whatever calls
\* on the capture stream failed.
C2_Ownership ==
    mainPc = "idle" => LiveStreams = (IF recording THEN 1 ELSE 0)

\* C6.  A start_recording in which the open or the start of the capture
\* stream raises ends with recording = False, a recording-inactive
\* notification and an error status on the DisplaySink, after a single
\* InputStream call, and the handler is over.
C6_OpenFailure ==
    [][(/\ mainPc \in {"toggle_start", "change_start"}
        /\ mainPc' # mainPc
        /\ faults' > faults) =>
            /\ ~recording'
            /\ ui_recording' = FALSE
            /\ ui_status' = "Error"
            /\ ui_debug' = <<"ErrorStart">>
            /\ CallCount("InputStream")' = 1
            /\ mainPc' = "idle"]_vars

\* C6 witness: the controller at rest right after a failed stream.start().
C6_Witness ==
    /\ mainPc = "idle" /\ ~recording /\ ui_status = "Error"
    /\ last = <<Call("InputStream", <<current_device>>), Call("start", <<>>)>>
    /\ stream = "opened"

\* C7.  A toggle out of Active in which stream.stop() or stream.close()
\* raises reports the error on the DisplaySink and ends Idle:
\* recording = False, and the recording indicator is off.
C7_CloseFailure ==
    [][(mainPc = "toggle_stop" /\ mainPc' # mainPc /\ faults' > faults) =>
            /\ ~recording'
            /\ ui_recording' = FALSE
            /\ ui_debug' = <<"ErrorStop">>
            /\ mainPc' = "idle"]_vars

\* C7 witness: the controller at rest right after a toggle whose
\* stream.close() raised.
C7_Witness ==
    /\ mainPc = "idle" /\ ~recording /\ ui_status = "Stopped"
    /\ ui_debug = <<"ErrorStop">> /\ stream = "stopped"
    /\ last = <<Call("stop", <<>>), Call("close", <<>>)>>

\* ------------------------------------------- the fold of section 4.3
\* The transcript t, once trailing whitespace is trimmed, ends in . ! or ?
TrimmedEndsTerminal(t) ==
    \E i \in 1..Len(t) :
        /\ t[i] \in {".", "!", "?"}
        /\ \A j \in (i + 1)..Len(t) : t[j] = " "

\* The fragment the fold appends for utterance u to transcript t: u with
\* its first character upper-cased exactly when that character is a
\* lowercase letter and t is not empty and ends a sentence.
RefFragment(t, u) ==
    IF t # <<>> /\ TrimmedEndsTerminal(t) /\ u # <<>> /\ u[1] = "a"
    THEN <<"A">> \o SubSeq(u, 2, Len(u))
    ELSE u

\* One step of the fold: the first utterance verbatim, a later one after
\* one separating space.
RefStep(t, u) ==
    IF t = <<>> THEN u ELSE t \o <<" ">> \o RefFragment(t, u)

\* The fold over a sequence of utterances, from the empty transcript.
RECURSIVE RefFold(_)
RefFold(us) ==
    IF us = <<>> THEN <<>>
    ELSE RefStep(RefFold(SubSeq(us, 1, Len(us) - 1)), us[Len(us)])

\* The fragment the fold appends for the k-th utterance of us.
RefFragmentAt(us, k) == RefFragment(RefFold(SubSeq(us, 1, k - 1)), us[k])

\* C3.  With no clear so far, whenever process_text is between two
\* utterances the transcript is the fold of section 4.3 over the utterances
\* dequeued so far.
C3_TranscriptIsFold ==
    (nclear = 0 /\ textPc = "poll") => context_buffer = RefFold(get_log)

\* C3 witness: an utterance starting with a lowercase letter was appended
\* to a transcript that ends in "? ": one space is inserted and the letter
\* is upper-cased.
C3_Witness ==
    /\ nclear = 0 /\ textPc = "poll"
    /\ get_log = << <<"?", " ">>, <<"a">> >>
    /\ context_buffer = <<"?", " ", " ", "A">>

\* C4.  With no clear so far, whenever process_text is between two
\* utterances the OutputSink has been handed exactly one text per utterance
\* dequeued, in order: the fragment the fold appended for that utterance
\* followed by one space; and with no OutputSink failure and no
\* paste_all_text each was pasted.
C4_DispatchIsFragment ==
    (nclear = 0 /\ textPc = "poll") =>
        /\ Len(copied) = Len(get_log)
        /\ \A k \in 1..Len(get_log) :
               copied[k] = RefFragmentAt(get_log, k) \o <<" ">>
        /\ (faults = 0 /\ npaste = 0) => injected = copied

\* C4 witness: the second utterance was dispatched recapitalized and
\* without the text of the first.
C4_Witness ==
    /\ nclear = 0 /\ textPc = "poll" /\ faults = 0
    /\ get_log = << <<"a", ".">>, <<"a">> >>
    /\ injected = << <<"a", ".", " ">>, <<"A", " ">> >>

\* C5.  With no clear so far, the utterances put on text_queue are dequeued
\* in the order they were put, none twice and none skipped, and whenever
\* process_text is between two utterances the transcript is the fold of
\* the utterances put so far less those still queued; the aggregator
\* worker has not ended.
C5_Fifo ==
    /\ put_log = get_log \o text_queue
    /\ nclear = 0 => textPc # "dead"
    /\ (nclear = 0 /\ textPc = "poll") =>
           context_buffer =
               RefFold(SubSeq(put_log, 1, Len(put_log) - Len(text_queue)))

\* C5 witness: two different utterances were queued at the same time,
\* the first is in the transcript and the second still waits.
C5_Witness ==
    /\ nclear = 0 /\ textPc = "poll"
    /\ Len(put_log) = 2 /\ put_log[1] # put_log[2]
    /\ text_queue = <<put_log[2]>>
    /\ context_buffer = put_log[1]
    /\ tmp = <<>>

\* C8.  The recognition worker never terminates; a frame on which the
\* adapter raised is reported on the DisplaySink; the frames fed to the
\* adapter followed by those still queued are the frames captured, so no
\* frame is skipped; and while a frame is queued the worker can take it.
C8_DecodeErrorIsolated ==
    /\ audioPc = "run"
    /\ last = <<Call("AcceptWaveform", <<>>)>> => ui_debug = <<"ErrorAudio">>
    /\ fed \o audio_queue = captured
    /\ (Running /\ audio_queue # <<>>) =>
           ENABLED ProcessAudio(<<"partial", <<>>>>)

\* C8 witness: the adapter raised on the first frame, and the second frame
\* was fed and yielded an utterance.
C8_Witness ==
    /\ faults = 1 /\ ui_debug = <<"ErrorAudio">>
    /\ Len(fed) = 2 /\ Len(put_log) = 1
    /\ last = <<Call("AcceptWaveform", <<>>), Call("Result", <<>>)>>

\* C9.  When the OutputSink raises while an utterance is dispatched, the
\* error is reported on the DisplaySink, the transcript is left as it is,
\* and process_text goes back to polling text_queue; with no clear so far
\* the transcript is the fold including that utterance and it is the
\* preview last emitted.
C9_DispatchErrorIsolated ==
    [][(textPc = "dispatch" /\ textPc' # textPc /\ faults' > faults) =>
            /\ ui_debug' = <<"ErrorPaste">>
            /\ textPc' = "poll"
            /\ context_buffer' = context_buffer
            /\ nclear = 0 => /\ context_buffer' = RefFold(get_log)
                             /\ ui_preview' = context_buffer']_vars

\* C9 witness: the dispatch of the first utterance failed, the second
\* utterance was appended and pasted.
C9_Witness ==
    /\ nclear = 0 /\ textPc = "poll" /\ faults = 1
    /\ get_log = << <<"a", ".">>, <<"a">> >>
    /\ context_buffer = <<"a", ".", " ", "A">>
    /\ injected = << <<"A", " ">> >>

\* The state of the program that clear_context could touch, the history
\* apart.
ProgramState ==
    <<ctlVars, timeVars, queueVars, aggVars, recogVars, uiVars, sinkVars>>

\* The state is as a clear_context left it.
AsCleared ==
    /\ context_buffer = <<>>
    /\ ui_preview = <<"Context cleared">>
    /\ ui_status = "Cleared"
    /\ ui_partial = <<>>

\* C10.  clear_context leaves the transcript empty whatever it was,
\* notifies the DisplaySink, leaves both queues as they are and ends
\* without error; run on a state a clear left, it changes nothing.
C10_Clear ==
    [][(nclear' # nclear) =>
            /\ AsCleared'
            /\ audio_queue' = audio_queue
            /\ text_queue' = text_queue
            /\ mainPc' = "idle"
            /\ AsCleared => ProgramState' = ProgramState]_vars

\* C10 witness: after two clears the transcript is empty, an utterance had
\* been appended before, and another is still queued.
C10_Witness ==
    /\ nclear = 2 /\ AsCleared
    /\ Len(get_log) = 1 /\ Len(text_queue) = 1 /\ textPc = "poll"

\* C11.  paste_all_text leaves the transcript as it is.  On an empty
\* transcript it makes no OutputSink call, leaves the clipboard and the
\* pasted texts alone and emits the "no text" status and nothing else.  On
\* a non-empty transcript it makes one copy call, carrying the whole
\* transcript, and when no OutputSink call raises the whole transcript is
\* pasted as one text and the status says so.
C11_PasteAll ==
    [][(npaste' # npaste) =>
            /\ context_buffer' = context_buffer
            /\ IF context_buffer = <<>>
               THEN /\ CallCount("copy")' = 0
                    /\ CallCount("hotkey")' = 0
                    /\ clipboard' = clipboard
                    /\ injected' = injected
                    /\ ui_status' = "NoText"
                    /\ <<ui_recording, ui_debug, ui_preview, ui_partial>>' =
                           <<ui_recording, ui_debug, ui_preview, ui_partial>>
                    /\ mainPc' = "idle"
               ELSE /\ CallCount("copy")' = 1
                    /\ last'[1] = Call("copy", context_buffer)
                    /\ mainPc' = "idle" =>
                           /\ clipboard' = context_buffer
                           /\ injected' = Append(injected, context_buffer)
                           /\ ui_status' = "Pasted"]_vars

\* C11 witness: paste_all_text has just pasted a transcript of two
\* utterances, after each had been dispatched on its own.
C11_Witness ==
    /\ npaste = 1 /\ mainPc = "idle" /\ textPc = "poll"
    /\ get_log = << <<"a", ".">>, <<"a">> >>
    /\ context_buffer = <<"a", ".", " ", "A">>
    /\ injected = << <<"a", ".", " ">>, <<"A", " ">>, context_buffer >>
    /\ last = <<Call("copy", context_buffer), Call("hotkey", <<>>)>>

\* ------------------------------------------------ the watchdog's report
\* The time the capture callback last observed a frame (-1: never).
LastFrameAt ==
    IF captured = <<>> THEN -1 ELSE captured[Len(captured)][4]

\* The number of frames observed since start_recording last ran.
FramesThisSession ==
    Cardinality({i \in 1..Len(captured) : captured[i][3] = sessionBase})

\* The later of two times.
Later(a, b) == IF a >= b THEN a ELSE b

\* What a watchdog tick leaves alone.
TickObserves ==
    /\ recording' = recording
    /\ audio_counter' = audio_counter
    /\ last_audio_time' = last_audio_time
    /\ audio_queue' = audio_queue
    /\ text_queue' = text_queue
    /\ ~recording => uiVars' = uiVars

\* C12 as claimed: a watchdog tick while Active reports "no audio" exactly
\* when more than 2 seconds have passed since the capture callback last
\* observed a frame, and otherwise "active" with the number of frames
\* observed in this session; while Idle it reports nothing; it changes
\* neither the recording state, the counter, the timestamp nor a queue.
\* (Stated for the runs in which a frame has been observed.)
C12_WatchdogAsClaimed ==
    [][(checkedAt' # checkedAt) =>
            /\ TickObserves
            /\ (recording /\ captured # <<>>) =>
                   ui_debug' = IF now - LastFrameAt > 2 THEN <<"NoAudio">>
                               ELSE <<"Active", FramesThisSession>>]_vars

\* C12 as amended: the time is measured from the later of the last
\* observed frame and the latest start_recording, which resets the
\* timestamp together with the counter.
C12_Watchdog ==
    [][(checkedAt' # checkedAt) =>
            /\ TickObserves
            /\ recording =>
                   ui_debug' =
                       IF now - Later(LastFrameAt, startedAt) > 2
                       THEN <<"NoAudio">>
                       ELSE <<"Active", FramesThisSession>>]_vars

\* C12 witness: in a second session, more than 2 seconds after the last
\* frame of the first, a tick has just reported "active" with the one frame
\* of this session.
C12_Witness ==
    /\ recording /\ mainPc = "idle" /\ checkedAt = now
    /\ Len(captured) = 2 /\ sessionBase = 1
    /\ captured[2][4] - captured[1][4] > 2
    /\ ui_debug = <<"Active", 1>>

\* C13 as claimed.  change_device while Idle only records the selection:
\* no stream call is made and no stream changes.  During a change_device
\* while Active the controller is never seen Idle (recording and the
\* recording indicator stay on).  When its stop_recording closed the old
\* stream and its start_recording succeeds, the new stream is opened after
\* the old one was closed, on the device just selected, and the controller
\* ends Active with that stream started and no other stream live.
C13_DeviceSwap ==
    [][/\ (current_device' # current_device /\ ~recording) =>
              /\ mainPc' = "idle"
              /\ last' = <<>>
              /\ <<recording, stream, stream_device, leaked, leakedStarted>>'
                     = <<recording, stream, stream_device, leaked, leakedStarted>>
       /\ mainPc' \in {"change_stop", "change_start"} =>
              recording' /\ ui_recording'
       /\ (mainPc = "change_start" /\ stream = "closed" /\ mainPc' # mainPc
            /\ faults' = faults) =>
              /\ last' = <<Call("InputStream", <<current_device>>),
                           Call("start", <<>>)>>
              /\ recording' /\ ui_recording' /\ mainPc' = "idle"
              /\ stream' = "started" /\ stream_device' = current_device
              /\ LiveStreams' = 1]_vars

\* C14.  The frames fed to the adapter followed by the frames on
\* audio_queue are the frames the callback received while recording, the
\* silent ones included, in the order it received them: each is on the queue
\* or fed, none twice, none missing, none out of order.
C14_FramesInOrder ==
    /\ fed \o audio_queue = captured
    /\ \A i \in 1..Len(captured) : \A j \in (i + 1)..Len(captured) :
           captured[i][1] < captured[j][1]
    /\ \A i \in 1..Len(captured) : captured[i][1] \in 1..nframes

\* C14 witness: a silent frame and then a loud one were received and both
\* were fed, the silent one first.
C14_Witness ==
    /\ audio_queue = <<>> /\ Len(fed) = 2 /\ fed = captured
    /\ fed[1][2] = "silent" /\ fed[2][2] = "loud"

\* C15.  Every text ever put on text_queue has a character that is not
\* whitespace and was put by a step that fetched a finalized result; a step
\* that fetched a partial hypothesis leaves text_queue and the transcript
\* as they are; and between two utterances the transcript is the fold of
\* the texts taken off text_queue, which are the first of those put.
C15_OnlyFinalsEnqueued ==
    [][/\ \A k \in 1..Len(put_log') :
              \E i \in 1..Len(put_log'[k]) : put_log'[k][i] # " "
       /\ put_log' # put_log =>
              last' = <<Call("AcceptWaveform", <<>>), Call("Result", <<>>)>>
       /\ last' = <<Call("AcceptWaveform", <<>>), Call("PartialResult", <<>>)>>
              => /\ text_queue' = text_queue
                 /\ put_log' = put_log
                 /\ context_buffer' = context_buffer
       /\ get_log' \o text_queue' = put_log'
       /\ textPc' = "poll" => context_buffer' = RefFold(get_log')]_vars

\* C15 witness: a partial hypothesis was fetched and displayed, then a
\* final result with text: only the final text is on the queue, and the
\* transcript is still empty.
C15_Witness ==
    /\ Len(fed) = 2 /\ ui_partial = <<"a">> /\ textPc = "poll"
    /\ put_log = << <<"a", ".">> >> /\ text_queue = put_log
    /\ context_buffer = <<>>
    /\ last = <<Call("AcceptWaveform", <<>>), Call("Result", <<>>)>>

\* C16 as claimed: when process_text is done with an utterance, that is
\* with a finalized result of non-empty trimmed text, and no partial
\* hypothesis was displayed after the latest finalized result was
\* obtained, the partial-hypothesis display is empty: the final has reset
\* it.
C16_PartialResetOnFinal ==
    [][(textPc = "dispatch" /\ textPc' = "poll" /\ ~partialSinceFinal) =>
            ui_partial' = <<>>]_vars

\* The capture callback received frame number n while recording.
WasCaptured(n) == \E i \in 1..Len(captured) : captured[i][1] = n

\* Frame number n was fed to the adapter.
WasFed(n) == \E i \in 1..Len(fed) : fed[i][1] = n

\* C17.  With the recognition worker scheduled, every frame put on
\* audio_queue is eventually fed to the adapter, whether or not recording
\* was stopped meanwhile; stop_recording leaves the queue, the frames fed
\* and the worker as they are, and it can always run to its end, whatever
\* the queue holds.
C17_DrainAfterStop ==
    /\ \A n \in 1..MaxFrames : WasCaptured(n) ~> WasFed(n)
    /\ [][(mainPc = "toggle_stop" /\ mainPc' # mainPc) =>
              /\ audio_queue' = audio_queue
              /\ fed' = fed
              /\ audioPc' = "run"]_vars
    /\ [](mainPc = "toggle_stop" => ENABLED StopRecording("ok"))

\* C17 witness: recording is stopped and the stream closed, and the
\* worker has just fed the second of two frames that were queued.
C17_Witness ==
    /\ ~recording /\ mainPc = "idle" /\ stream = "closed"
    /\ Len(captured) = 2 /\ fed = captured /\ audio_queue = <<>>
    /\ last # <<>> /\ last[1] = Call("AcceptWaveform", <<>>)

\* C18 as claimed: whenever a frame is fed to the recognizer, the
\* recognizer holds nothing, or what it holds comes from frames of the
\* session the frame was received in.
C18_AdapterSessionScoped ==
    [][(fed' # fed) =>
            \/ decoder_base = -1
            \/ decoder_base = Head(audio_queue)[3]]_vars

\* C19 as claimed: whatever the interleaving of clear_context with the
\* steps of process_text, the aggregator thread never ends.
C19_AggregatorSurvivesClear == textPc # "dead"

\* The transcripts that hold the text of utterance u and nothing older: u
\* itself, as it came or with its first letter upper-cased, after at most
\* the separating space.
OnlyTextOf(u) ==
    LET up == IF u[1] = "a" THEN <<"A">> \o SubSeq(u, 2, Len(u)) ELSE u
    IN  {u, up, <<" ">> \o u, <<" ">> \o up}

\* C20 as claimed: when clear_context ran while process_text was handling
\* an utterance, the transcript process_text leaves on appending that
\* utterance holds the text of that utterance and nothing from before the
\* clear.
C20_ClearNeverLost ==
    [][(textPc = "app_store" /\ textPc' = "preview" /\ clearedMid) =>
            context_buffer' \in OnlyTextOf(get_log[Len(get_log)])]_vars

=============================================================================
